---- MODULE Spec2Model ----
(***************************************************************************)
(* vllm-detector-adapter.                                                  *)
(*                                                                         *)
(* Two components are modelled:                                            *)
(*   - VLLMJudgeClient (examples/example_usage.py): one call of one of its *)
(*     methods, from the request it sends to the value it returns or the   *)
(*     exception it raises.  The adapter the client talks to is the        *)
(*     environment: it answers every request with a nondeterministically   *)
(*     chosen HTTP response, and the client's clock advances during every  *)
(*     blocking call (requests.post, requests.get, time.sleep).            *)
(*   - the FastAPI application (app/main.py): the health check and the     *)
(*     exception handler registered for AdapterError.                      *)
(*                                                                         *)
(* Environment assumptions, stated once:                                   *)
(*   - a response answered with 200 carries the JSON object of the         *)
(*     adapter's API (a submit response has "evaluation_id", a status      *)
(*     response has "status"); the KeyError paths of the client are in the *)
(*     model but no well-formed response takes them;                       *)
(*   - every request is answered (requests raises nothing of its own);     *)
(*   - time.time() never runs backwards.                                   *)
(***************************************************************************)
EXTENDS Integers, Sequences, FiniteSets, TLC

VARIABLES
    pc,               \* where the client call stands
    method,           \* the method called
    wait_for_result,  \* argument
    timeout,          \* argument, seconds
    now,              \* time.time() of the client, in ticks
    start_time,       \* local of the waiting loop, in ticks
    sent,             \* every request the call has sent, in order
    submit_response,  \* the HTTP response to the POST
    task_data,        \* local: response.json() of the POST
    evaluation_id,    \* local
    observed,         \* every HTTP response to a status GET, in order
    status_data,      \* local: what get_status last returned
    sleeps,           \* number of time.sleep(1) calls made
    template_args,    \* the optional arguments of create_custom_template
    template_data,    \* local of create_custom_template
    outcome,          \* how the call ended
    srv_pc,           \* where the adapter stands with the request it serves
    srv_request,      \* the request being served
    srv_exc,          \* the exception its route raised
    srv_response      \* the response sent back

client_vars == <<pc, method, wait_for_result, timeout, now, start_time, sent,
                 submit_response, task_data, evaluation_id, observed,
                 status_data, sleeps, template_args, template_data,
                 outcome>>
srv_vars == <<srv_pc, srv_request, srv_exc, srv_response>>
vars == <<client_vars, srv_vars>>

----------------------------------------------------------------------------
(* Bounds of the model. *)

\* largest timeout argument, in seconds
MaxTimeout == 3
\* clock ticks per second
TicksPerSec == 2
\* longest HTTP round trip, in ticks
MaxLatency == 1
\* longest overshoot of time.sleep, in ticks
MaxOversleep == 1
\* longest AdapterError detail, in characters
MaxDetailLen == 2

(* Program constants. *)
HTTP_OK == 200
SleepSeconds == 1

----------------------------------------------------------------------------
(* Python values that may be None: tagged, so that None, "" and {} differ. *)

PyNone == [t |-> "NoneType", v |-> "None"]
PyStr(s) == [t |-> "str", v |-> s]
PyDict(s) == [t |-> "dict", v |-> s]

\* bool(x), as `if x:` evaluates it
Truthy_NotNone(x) == x.t # "NoneType"
Truthy(x) ==
    IF x.t = "NoneType" THEN FALSE
    ELSE IF x.t = "str" THEN x.v # ""
    ELSE x.v # "{}"

\* str(x), as an f-string formats it
Str(x) == x.v

\* d.get(k): None when the key is missing
DictGet(d, k) == IF k \in DOMAIN d THEN d[k] ELSE PyNone

Unset == [unset |-> TRUE]
NoOutcome == [kind |-> "none"]
Returned(value) == [kind |-> "return", value |-> value]
Raised(exc) == [kind |-> "raise", exc |-> exc]

----------------------------------------------------------------------------
(* The client's requests. *)

EvalMethods == {"evaluate_toxicity", "evaluate_factual_accuracy",
                "detect_hallucinations",
                "evaluate_conversational_ai_response",
                "compare_summarizations"}

SubmitPath(m) ==
    IF m = "compare_summarizations" THEN "/evaluate/pairwise_comparison"
    ELSE "/evaluate/single_response"

PromptTemplateId(m) ==
    CASE m = "evaluate_toxicity" -> "toxicity_detection"
      [] m = "evaluate_factual_accuracy" -> "factual_accuracy"
      [] m = "detect_hallucinations" -> "hallucination_detection"
      [] m = "evaluate_conversational_ai_response" -> "likert_scale"
      [] m = "compare_summarizations" -> "pairwise_comparison"

\* only evaluate_toxicity passes its provide_reasoning argument on
SubmitRequest(m, provide_reasoning) ==
    [verb |-> "POST", path |-> SubmitPath(m),
     prompt_template_id |-> PromptTemplateId(m),
     provide_reasoning |-> (m = "evaluate_toxicity" /\ provide_reasoning)]

StatusRequest_FixedId(id) ==
    [verb |-> "GET", path |-> "/evaluate/status/", id |-> "eval-1"]
StatusRequest(id) == [verb |-> "GET", path |-> "/evaluate/status/", id |-> id]

TemplateRequest(data) ==
    [verb |-> "POST", path |-> "/config/judge_templates", json |-> data]

(* The adapter's answers, as the client sees them. *)

Ids == {"eval-1", "eval-2"}
Statuses == {"PENDING", "COMPLETED", "FAILED", "completed"}

ErrorBody == [error |-> "detail"]

SubmitResponses ==
    {[status_code |-> c, json |-> [evaluation_id |-> i]] :
        c \in {200, 202}, i \in Ids}
    \cup {[status_code |-> c, json |-> ErrorBody] : c \in {422, 500}}

StatusBodies(id) ==
    {[evaluation_id |-> id, status |-> s] : s \in Statuses}
    \cup {[evaluation_id |-> id, status |-> "FAILED",
           error_message |-> PyStr("boom")]}

StatusResponses(id) ==
    {[status_code |-> 200, json |-> b] : b \in StatusBodies(id)}
    \cup {[status_code |-> c, json |-> ErrorBody] : c \in {404, 500}}

TemplateResponses ==
    {[status_code |-> 200, json |-> [template_id |-> "tpl-1"]]}
    \cup {[status_code |-> c, json |-> ErrorBody] : c \in {201, 422}}

Latencies == 0..MaxLatency
SleepTicks ==
    (SleepSeconds * TicksPerSec)..(SleepSeconds * TicksPerSec + MaxOversleep)

(* The exceptions the client raises. *)

HttpError(resp) ==
    [type |-> "Exception", fmt |-> "Error: {status_code} - {text}",
     status_code |-> resp.status_code, text |-> resp.json]
EvaluationFailed(data) ==
    [type |-> "Exception", fmt |-> "Evaluation failed: {error_message}",
     error_message |-> Str(DictGet(data, "error_message"))]
EvaluationTimedOut(t) ==
    [type |-> "TimeoutError",
     fmt |-> "Evaluation timed out after {timeout} seconds", timeout |-> t]
KeyError(k) == [type |-> "KeyError", key |-> k]

(* The tests the client makes. *)

\* `response.status_code != 200` of a submit or template POST, negated
SubmitOk_Any2xx(resp) == resp.status_code \in 200..299
SubmitOk(resp) == resp.status_code = HTTP_OK

\* `response.status_code != 200` of get_status, negated
StatusOk_Unchecked(resp) == TRUE
StatusOk(resp) == resp.status_code = HTTP_OK

\* `not wait_for_result`
ReturnsAtOnce_Never(w) == FALSE
ReturnsAtOnce(w) == ~w

\* task_data["evaluation_id"]
EvaluationIdOf(data) == data.evaluation_id

\* `time.time() - start_time < timeout`
LoopCond_Inclusive(n, s, t) == n - s <= t * TicksPerSec
LoopCond(n, s, t) == n - s < t * TicksPerSec

\* status_data["status"] == "COMPLETED"
IsCompleted_NotFailed(data) == data.status # "FAILED"
IsCompleted_LowerCase(data) == data.status = "completed"
IsCompleted_AnyCase(data) == data.status \in {"COMPLETED", "completed"}
IsCompleted(data) == data.status = "COMPLETED"

\* status_data["status"] == "FAILED"
IsFailed_Never(data) == FALSE
IsFailed(data) == data.status = "FAILED"

----------------------------------------------------------------------------
(* create_custom_template: the payload built from the arguments. *)

OptionalStrs == {PyNone, PyStr(""), PyStr("text")}
OptionalDicts == {PyNone, PyDict("{}"), PyDict("{type: json}")}

\* the entries d gets from `if value: d[key] = value`
Optional(key, value) ==
    IF Truthy(value) THEN (key :> value) ELSE <<>>

PromptStructure(system_message, prefix, suffix) ==
    [system_message |-> system_message, user_instruction_prefix |-> prefix]
    @@ Optional("user_instruction_suffix", suffix)

TemplateData(name, system_message, prefix, suffix, rules, family, descr) ==
    [template_name |-> name,
     prompt_structure |-> PromptStructure(system_message, prefix, suffix)]
    @@ Optional("output_parser_rules", rules)
    @@ Optional("target_judge_model_family", family)
    @@ Optional("description", descr)

----------------------------------------------------------------------------
Init ==
    /\ pc = "idle"
    /\ method = "none"
    /\ wait_for_result = TRUE
    /\ timeout = 0
    /\ now = 0
    /\ start_time = 0
    /\ sent = <<>>
    /\ submit_response = Unset
    /\ task_data = Unset
    /\ evaluation_id = "unset"
    /\ observed = <<>>
    /\ status_data = Unset
    /\ sleeps = 0
    /\ template_args = Unset
    /\ template_data = Unset
    /\ outcome = NoOutcome
    /\ srv_pc = "idle"
    /\ srv_request = Unset
    /\ srv_exc = Unset
    /\ srv_response = Unset

(* The call ends: a return or a raise. *)
Finish(o) == pc' = "done" /\ outcome' = o

\* evaluate_*: the arguments are bound and the POST is sent
Call(m, provide_reasoning, w, t) ==
    /\ pc = "idle"
    /\ method' = m
    /\ wait_for_result' = w
    /\ timeout' = t
    /\ sent' = <<SubmitRequest(m, provide_reasoning)>>
    /\ pc' = "submit"
    /\ UNCHANGED <<now, start_time, submit_response, task_data, evaluation_id,
                   observed, status_data, sleeps, template_args, template_data,
                   outcome>>
    /\ UNCHANGED srv_vars

\* evaluate_*: the POST is answered; up to the first test of the loop
SubmitResponse(resp, latency) ==
    /\ pc = "submit"
    /\ now' = now + latency
    /\ submit_response' = resp
    /\ IF ~SubmitOk(resp)
       THEN /\ Finish(Raised(HttpError(resp)))
            /\ UNCHANGED <<task_data, evaluation_id, start_time>>
       ELSE /\ task_data' = resp.json
            /\ IF "evaluation_id" \notin DOMAIN resp.json
               THEN /\ Finish(Raised(KeyError("evaluation_id")))
                    /\ UNCHANGED <<evaluation_id, start_time>>
               ELSE /\ evaluation_id' = EvaluationIdOf(resp.json)
                    /\ IF ReturnsAtOnce(wait_for_result)
                       THEN /\ Finish(Returned(resp.json))
                            /\ UNCHANGED start_time
                       ELSE /\ start_time' = now'
                            /\ pc' = "loop"
                            /\ UNCHANGED outcome
    /\ UNCHANGED <<method, wait_for_result, timeout, sent, observed,
                   status_data, sleeps, template_args, template_data>>
    /\ UNCHANGED srv_vars

\* the loop's test: another get_status, or TimeoutError
LoopCheck ==
    /\ pc = "loop"
    /\ IF LoopCond(now, start_time, timeout)
       THEN /\ sent' = Append(sent, StatusRequest(evaluation_id))
            /\ pc' = "poll"
            /\ UNCHANGED outcome
       ELSE /\ Finish(Raised(EvaluationTimedOut(timeout)))
            /\ UNCHANGED sent
    /\ UNCHANGED <<method, wait_for_result, timeout, now, start_time,
                   submit_response, task_data, evaluation_id, observed,
                   status_data, sleeps, template_args, template_data>>
    /\ UNCHANGED srv_vars

\* get_status called on its own
CallGetStatus(id) ==
    /\ pc = "idle"
    /\ method' = "get_status"
    /\ evaluation_id' = id
    /\ sent' = <<StatusRequest(id)>>
    /\ pc' = "poll"
    /\ UNCHANGED <<wait_for_result, timeout, now, start_time, submit_response,
                   task_data, observed, status_data, sleeps, template_args,
                   template_data, outcome>>
    /\ UNCHANGED srv_vars

\* the GET is answered: get_status ends, and the loop body acts on its result
StatusResponse(resp, latency) ==
    /\ pc = "poll"
    /\ now' = now + latency
    /\ observed' = Append(observed, resp)
    /\ IF ~StatusOk(resp)
       THEN /\ Finish(Raised(HttpError(resp)))
            /\ UNCHANGED status_data
       ELSE /\ status_data' = resp.json
            /\ IF method = "get_status"
               THEN Finish(Returned(resp.json))
               ELSE IF "status" \notin DOMAIN resp.json
               THEN Finish(Raised(KeyError("status")))
               ELSE IF IsCompleted(resp.json)
               THEN Finish(Returned(resp.json))
               ELSE IF IsFailed(resp.json)
               THEN Finish(Raised(EvaluationFailed(resp.json)))
               ELSE pc' = "sleep" /\ UNCHANGED outcome
    /\ UNCHANGED <<method, wait_for_result, timeout, start_time, sent,
                   submit_response, task_data, evaluation_id, sleeps,
                   template_args, template_data>>
    /\ UNCHANGED srv_vars

\* time.sleep(1)
Sleep(ticks) ==
    /\ pc = "sleep"
    /\ now' = now + ticks
    /\ sleeps' = sleeps + 1
    /\ pc' = "loop"
    /\ UNCHANGED <<method, wait_for_result, timeout, start_time, sent,
                   submit_response, task_data, evaluation_id, observed,
                   status_data, template_args, template_data, outcome>>
    /\ UNCHANGED srv_vars

\* create_custom_template: the payload is built and the POST is sent
CallCreateTemplate(suffix, rules, family, descr) ==
    /\ pc = "idle"
    /\ method' = "create_custom_template"
    /\ template_args' = [user_instruction_suffix |-> suffix,
                          output_parser_rules |-> rules,
                          target_judge_model_family |-> family,
                          description |-> descr]
    /\ template_data' = TemplateData("name", "system", "prefix",
                                     suffix, rules, family, descr)
    /\ sent' = <<TemplateRequest(template_data')>>
    /\ pc' = "template"
    /\ UNCHANGED <<wait_for_result, timeout, now, start_time, submit_response,
                   task_data, evaluation_id, observed, status_data, sleeps,
                   outcome>>
    /\ UNCHANGED srv_vars

\* create_custom_template: the POST is answered
TemplateResponse(resp, latency) ==
    /\ pc = "template"
    /\ now' = now + latency
    /\ submit_response' = resp
    /\ IF ~SubmitOk(resp)
       THEN Finish(Raised(HttpError(resp)))
       ELSE Finish(Returned(resp.json))
    /\ UNCHANGED <<method, wait_for_result, timeout, start_time, sent,
                   task_data, evaluation_id, observed, status_data, sleeps,
                   template_args, template_data>>
    /\ UNCHANGED srv_vars

Next ==
    \/ \E m \in EvalMethods, pr \in BOOLEAN, w \in BOOLEAN, t \in 0..MaxTimeout :
          Call(m, pr, w, t)
    \/ \E resp \in SubmitResponses, l \in Latencies : SubmitResponse(resp, l)
    \/ LoopCheck
    \/ \E id \in Ids : CallGetStatus(id)
    \/ \E resp \in StatusResponses(evaluation_id), l \in Latencies :
          StatusResponse(resp, l)
    \/ \E d \in SleepTicks : Sleep(d)
    \/ \E s \in OptionalStrs, r \in OptionalDicts, f \in OptionalStrs,
          d \in OptionalStrs : CallCreateTemplate(s, r, f, d)
    \/ \E resp \in TemplateResponses, l \in Latencies : TemplateResponse(resp, l)

Spec == Init /\ [][Next]_vars

\* the steps of a call once it is made: every request is answered,
\* time.sleep returns and the loop's test is evaluated
ClientStep ==
    \/ \E resp \in SubmitResponses, l \in Latencies : SubmitResponse(resp, l)
    \/ LoopCheck
    \/ \E resp \in StatusResponses(evaluation_id), l \in Latencies :
          StatusResponse(resp, l)
    \/ \E d \in SleepTicks : Sleep(d)
    \/ \E resp \in TemplateResponses, l \in Latencies : TemplateResponse(resp, l)

\* a call that has been made keeps running: no request is left unanswered
LiveSpec == Spec /\ WF_vars(ClientStep)

----------------------------------------------------------------------------
(* Properties of the client.                                               *)

Evaluating == method \in EvalMethods
Waiting == Evaluating /\ wait_for_result
Done == pc = "done"
Elapsed == now - start_time
Deadline == timeout * TicksPerSec
LastObserved == observed[Len(observed)]

\* the i-th status request was answered 200 with this status
Reported(i, status) ==
    /\ observed[i].status_code = 200
    /\ "status" \in DOMAIN observed[i].json
    /\ observed[i].json.status = status

\* the i-th status request was answered 200, neither COMPLETED nor FAILED
StillPending(i) ==
    /\ observed[i].status_code = 200
    /\ "status" \in DOMAIN observed[i].json
    /\ observed[i].json.status \notin {"COMPLETED", "FAILED"}

TimedOut ==
    /\ outcome.kind = "raise"
    /\ outcome.exc.type = "TimeoutError"

\* the call raised Exception with this status code in its message
RaisedHttpError(code) ==
    /\ outcome.kind = "raise"
    /\ outcome.exc.type = "Exception"
    /\ "status_code" \in DOMAIN outcome.exc
    /\ outcome.exc.status_code = code

\* C1: a waiting evaluate call that returns a value returns a status response
\* whose status is "COMPLETED": never the submit response, never a status
\* response with another status.
C1_WaitingReturnsOnlyCompleted ==
    (Waiting /\ outcome.kind = "return") =>
        /\ observed # <<>>
        /\ LastObserved.status_code = 200
        /\ outcome.value = LastObserved.json
        /\ outcome.value # task_data
        /\ "status" \in DOMAIN outcome.value
        /\ outcome.value.status = "COMPLETED"

C1_Witness ==
    /\ Waiting /\ Done
    /\ method = "compare_summarizations"
    /\ outcome.kind = "return"
    /\ Len(observed) >= 2
    /\ Reported(1, "completed")

\* C2: with wait_for_result=False and a 200 answer to the POST, the call
\* returns the submit response body at once: no status request, no sleep, and
\* the outcome is the body whatever the timeout.
C2_NoWaitReturnsSubmitBody ==
    (Evaluating /\ ~wait_for_result /\ pc \notin {"idle", "submit"}
        /\ submit_response.status_code = 200) =>
        /\ Done
        /\ outcome = Returned(submit_response.json)
        /\ Len(sent) = 1
        /\ observed = <<>>
        /\ sleeps = 0
        /\ now <= MaxLatency

C2_Witness ==
    /\ Evaluating /\ ~wait_for_result /\ Done
    /\ timeout = 0
    /\ outcome.kind = "return"
    /\ outcome.value = [evaluation_id |-> "eval-2"]

\* C3: the first FAILED status response ends the wait with an Exception
\* carrying its error_message: it is the last response observed, no status
\* request follows it and the call returns nothing.
C3_FailedIsTerminal ==
    Evaluating =>
        \A i \in 1..Len(observed) :
            Reported(i, "FAILED") =>
                /\ i = Len(observed)
                /\ Len(sent) = i + 1
                /\ Done
                /\ outcome.kind = "raise"
                /\ outcome.exc.type = "Exception"
                /\ "error_message" \in DOMAIN outcome.exc
                /\ outcome.exc.error_message =
                      (IF "error_message" \in DOMAIN observed[i].json
                       THEN observed[i].json.error_message.v
                       ELSE "None")

C3_Witness ==
    /\ Waiting /\ Done
    /\ Len(observed) >= 2
    /\ Reported(Len(observed), "FAILED")
    /\ outcome.kind = "raise"
    /\ "error_message" \in DOMAIN outcome.exc
    /\ outcome.exc.error_message = "boom"
    /\ Elapsed < Deadline

\* C4: a POST answered with a status code other than 200 makes the evaluate
\* call raise an Exception containing that code, before any evaluation_id is
\* read and with no status request sent, for both values of wait_for_result.
C4_SubmitErrorRaises ==
    (Evaluating /\ pc \notin {"idle", "submit"}
        /\ submit_response.status_code # 200) =>
        /\ Done
        /\ RaisedHttpError(submit_response.status_code)
        /\ task_data = Unset
        /\ evaluation_id = "unset"
        /\ Len(sent) = 1
        /\ observed = <<>>

C4_Witness ==
    /\ Waiting /\ Done
    /\ timeout > 0
    /\ submit_response.status_code = 202
    /\ RaisedHttpError(202)

\* C5: get_status returns the body exactly when the GET is answered 200 and
\* raises otherwise; in a waiting evaluate call one status response other
\* than 200 ends the call with that exception: no retry, no further request.
C5_StatusErrorRaises ==
    /\ (method = "get_status" /\ Done) =>
          IF observed[1].status_code = 200
          THEN outcome = Returned(observed[1].json)
          ELSE RaisedHttpError(observed[1].status_code)
    /\ Evaluating =>
          \A i \in 1..Len(observed) :
              observed[i].status_code # 200 =>
                  /\ i = Len(observed)
                  /\ Len(sent) = i + 1
                  /\ Done
                  /\ RaisedHttpError(observed[i].status_code)

C5_Witness ==
    /\ Waiting /\ Done
    /\ Len(observed) >= 2
    /\ LastObserved.status_code = 404
    /\ RaisedHttpError(404)
    /\ Elapsed < Deadline

\* C6: an evaluate call sends exactly one POST, first, then only status GETs,
\* each sent after the submit response was read and after the GET before it
\* was answered, each for the evaluation_id of that submit response; it sends
\* nothing else whatever its outcome.
C6_SubmitThenPolls ==
    (Evaluating /\ pc # "idle") =>
        /\ Len(sent) >= 1
        /\ sent[1].verb = "POST"
        /\ sent[1].path = (IF method = "compare_summarizations"
                           THEN "/evaluate/pairwise_comparison"
                           ELSE "/evaluate/single_response")
        /\ Len(sent) >= 2 =>
              /\ pc # "submit"
              /\ submit_response.status_code = 200
        /\ \A i \in 2..Len(sent) :
              sent[i] = [verb |-> "GET", path |-> "/evaluate/status/",
                         id |-> submit_response.json.evaluation_id]
        /\ Len(sent) = 1 + Len(observed) + (IF pc = "poll" THEN 1 ELSE 0)

C6_Witness ==
    /\ Waiting /\ Done
    /\ TimedOut
    /\ Len(sent) >= 3
    /\ submit_response.json.evaluation_id = "eval-2"

\* C8: create_custom_template sends a payload whose prompt_structure holds
\* system_message and user_instruction_prefix, and user_instruction_suffix
\* exactly when that argument is truthy; output_parser_rules,
\* target_judge_model_family and description are in the payload exactly when
\* truthy (None, "" and {} are left out); it returns the body on 200 and
\* raises on any other status code.
Falsy == {PyNone, PyStr(""), PyDict("{}")}

C8_TemplatePayload ==
    (method = "create_custom_template") =>
        LET ps == template_data.prompt_structure
            a == template_args
        IN /\ {"system_message", "user_instruction_prefix"} \subseteq DOMAIN ps
           /\ DOMAIN ps \subseteq {"system_message", "user_instruction_prefix",
                                   "user_instruction_suffix"}
           /\ ("user_instruction_suffix" \in DOMAIN ps)
                 <=> (a.user_instruction_suffix \notin Falsy)
           /\ ("user_instruction_suffix" \in DOMAIN ps)
                 => ps.user_instruction_suffix = a.user_instruction_suffix
           /\ \A k \in {"output_parser_rules", "target_judge_model_family",
                        "description"} :
                 /\ (k \in DOMAIN template_data) <=> (a[k] \notin Falsy)
                 /\ (k \in DOMAIN template_data) => template_data[k] = a[k]
           /\ sent = <<[verb |-> "POST", path |-> "/config/judge_templates",
                        json |-> template_data]>>
           /\ Done =>
                 IF submit_response.status_code = 200
                 THEN outcome = Returned(submit_response.json)
                 ELSE RaisedHttpError(submit_response.status_code)

C8_Witness ==
    /\ method = "create_custom_template" /\ Done
    /\ outcome.kind = "return"
    /\ template_args.user_instruction_suffix = PyStr("")
    /\ template_args.output_parser_rules = PyDict("{}")
    /\ template_args.target_judge_model_family = PyNone
    /\ template_args.description = PyStr("text")
    /\ DOMAIN template_data =
          {"template_name", "prompt_structure", "description"}

\* C9: in a waiting call whose status requests are all answered 200 and never
\* FAILED, a COMPLETED status response (to a poll sent before the deadline)
\* is what the call returns; the call does not raise TimeoutError.
C9_CompletedIsDelivered ==
    Waiting =>
        \A i \in 1..Len(observed) :
            (/\ Reported(i, "COMPLETED")
             /\ \A j \in 1..Len(observed) :
                   /\ observed[j].status_code = 200
                   /\ ~Reported(j, "FAILED")) =>
                /\ Done
                /\ outcome = Returned(observed[i].json)
                /\ ~TimedOut

C9_Witness ==
    /\ Waiting /\ Done
    /\ method = "evaluate_conversational_ai_response"
    /\ Len(observed) >= 2
    /\ Reported(Len(observed), "COMPLETED")
    /\ outcome.kind = "return"
    /\ Elapsed >= Deadline

\* C10: a status other than exactly "COMPLETED" or "FAILED" is treated as
\* pending: the client sleeps once after each such response, tests the
\* deadline again and polls again; a call that saw only such responses ends with TimeoutError,
\* and TimeoutError is raised only when the deadline has passed and no status
\* response observed was COMPLETED or FAILED.
C10_OtherStatusIsPending ==
    Waiting =>
        /\ sleeps + (IF pc = "sleep" THEN 1 ELSE 0)
              = Cardinality({i \in 1..Len(observed) : StillPending(i)})
        /\ (observed # <<>> /\ StillPending(Len(observed))) =>
              \/ pc \in {"sleep", "loop", "poll"}
              \/ Done /\ TimedOut
        /\ TimedOut =>
              /\ \A i \in 1..Len(observed) : StillPending(i)
              /\ Elapsed >= Deadline
        /\ (/\ Done
            /\ submit_response.status_code = 200
            /\ \A i \in 1..Len(observed) : StillPending(i)) => TimedOut

C10_Witness ==
    /\ Waiting /\ Done
    /\ TimedOut
    /\ Len(observed) >= 2
    /\ Reported(1, "completed")
    /\ Reported(2, "PENDING")

\* C11: a waiting evaluate call terminates when every request is answered
\* and each sleep advances the clock by at least one second: with timeout T
\* the loop sends at most T status requests (and sleeps at most T times),
\* whatever the statuses reported, and the call then returns or raises.
StatusRequestsSent == Len(sent) - 1

C11_WaitTerminatesWithinTimeout ==
    /\ [](Waiting =>
            /\ StatusRequestsSent <= timeout
            /\ sleeps <= timeout)
    /\ ((Waiting /\ pc # "idle") ~> Done)

C11_Witness ==
    /\ Waiting /\ Done
    /\ TimedOut
    /\ timeout >= 2
    /\ StatusRequestsSent = timeout
    /\ sleeps = timeout

----------------------------------------------------------------------------
(* The adapter application (app/main.py).                                  *)

\* the characters a detail is made of: a plain one, a quote, a backslash
Chars == {"a", "\"", "\\"}

RECURSIVE StringsUpTo(_)
StringsUpTo(n) ==
    IF n = 0 THEN {<<>>}
    ELSE LET shorter == StringsUpTo(n - 1)
         IN shorter \cup {Append(s, c) : s \in shorter, c \in Chars}

Details == StringsUpTo(MaxDetailLen)

\* AdapterError carries the status code and the detail of the answer
AdapterErrors ==
    {[class |-> "AdapterError", status_code |-> c, detail |-> d] :
        c \in {400, 404, 422, 500, 503}, d \in Details}
\* any other exception a route may raise
OtherErrors == {[class |-> "ValueError", detail |-> <<"a">>]}

ServedRequests ==
    {[verb |-> "GET", path |-> "/health"],
     [verb |-> "POST", path |-> "/evaluate/single_response"],
     [verb |-> "POST", path |-> "/evaluate/pairwise_comparison"],
     [verb |-> "GET", path |-> "/evaluate/status/"],
     [verb |-> "POST", path |-> "/config/judge_templates"]}

\* json.dumps of a string: quotes around it, quote and backslash escaped
RECURSIVE JsonEscape(_)
JsonEscape(str) ==
    IF str = <<>> THEN <<>>
    ELSE (IF Head(str) \in {"\"", "\\"} THEN <<"\\", Head(str)>>
          ELSE <<Head(str)>>) \o JsonEscape(Tail(str))

JsonString(str) == <<"\"">> \o JsonEscape(str) \o <<"\"">>

\* json.dumps of a dict of one string key, compact separators:
\* the key is one token of the body
JsonDumps(content) ==
    LET key == CHOOSE k \in DOMAIN content : TRUE
    IN <<"{", "\"", key, "\"", ":">> \o JsonString(content[key]) \o <<"}">>

\* the inverse reading of a body, as an HTTP client parses it
RECURSIVE JsonUnescape(_)
JsonUnescape(chars) ==
    IF chars = <<>> THEN <<>>
    ELSE IF Head(chars) = "\\"
         THEN <<chars[2]>> \o JsonUnescape(Tail(Tail(chars)))
         ELSE <<Head(chars)>> \o JsonUnescape(Tail(chars))

JsonLoads(body) ==
    LET key == body[3]
        inner == SubSeq(body, 7, Len(body) - 2)
    IN key :> JsonUnescape(inner)

JSONResponse(status_code, content) ==
    [status_code |-> status_code, media_type |-> "application/json",
     body |-> JsonDumps(content)]

\* the handler registered for AdapterError
adapter_error_handler_DetailKey(request, exc) ==
    JSONResponse(exc.status_code, [detail |-> exc.detail])
adapter_error_handler(request, exc) ==
    JSONResponse(exc.status_code, [error |-> exc.detail])

\* a request arrives
Receive(req) ==
    /\ srv_pc \in {"idle", "responded", "unhandled"}
    /\ srv_request' = req
    /\ srv_exc' = Unset
    /\ srv_response' = Unset
    /\ srv_pc' = "routing"
    /\ UNCHANGED client_vars

\* GET /health
health_check ==
    /\ srv_pc = "routing"
    /\ srv_request = [verb |-> "GET", path |-> "/health"]
    /\ srv_response' = JSONResponse(200, [status |-> <<"healthy">>])
    /\ srv_pc' = "responded"
    /\ UNCHANGED <<srv_request, srv_exc>>
    /\ UNCHANGED client_vars

\* a route of the included routers raises
RouteRaises(exc) ==
    /\ srv_pc = "routing"
    /\ srv_request.path # "/health"
    /\ srv_exc' = exc
    /\ srv_pc' = "raised"
    /\ UNCHANGED <<srv_request, srv_response>>
    /\ UNCHANGED client_vars

\* the application looks up the handler of the exception's class
HandleException ==
    /\ srv_pc = "raised"
    /\ IF srv_exc.class = "AdapterError"
       THEN /\ srv_response' = adapter_error_handler(srv_request, srv_exc)
            /\ srv_pc' = "responded"
       ELSE /\ srv_pc' = "unhandled"
            /\ UNCHANGED srv_response
    /\ UNCHANGED <<srv_request, srv_exc>>
    /\ UNCHANGED client_vars

AdapterNext ==
    \/ \E req \in ServedRequests : Receive(req)
    \/ health_check
    \/ \E exc \in AdapterErrors \cup OtherErrors : RouteRaises(exc)
    \/ HandleException

AdapterSpec == Init /\ [][AdapterNext]_vars

----------------------------------------------------------------------------
(* Properties of the adapter.                                              *)

\* C7: an AdapterError raised while serving a request is answered with a
\* JSON response whose status code is the exception's status_code and whose
\* body reads back as {"error": detail}; it is never left unhandled.
C7_AdapterErrorIsAnswered ==
    (srv_pc \in {"responded", "unhandled"} /\ srv_exc # Unset
        /\ srv_exc.class = "AdapterError") =>
        /\ srv_pc = "responded"
        /\ srv_response.status_code = srv_exc.status_code
        /\ srv_response.media_type = "application/json"
        /\ JsonLoads(srv_response.body) = [error |-> srv_exc.detail]

C7_Witness ==
    /\ srv_pc = "responded"
    /\ srv_exc # Unset
    /\ srv_exc.class = "AdapterError"
    /\ srv_exc.status_code = 404
    /\ srv_exc.detail = <<"\"", "\\">>
    /\ srv_response.status_code = 404

====
